---- MODULE Spec2Model ----
(***************************************************************************)
(* A model of task_manager.py: the CPU and memory widgets with their       *)
(* 1.5 s timers, the process table with its 2.0 s timer and on-demand      *)
(* refresh, and the application's search / refresh / kill handlers.        *)
(*                                                                         *)
(* Every handler runs to completion on the single event-loop thread, so    *)
(* each handler is one action.  What the operating system answers (CPU and *)
(* memory counters, the process enumeration, the result of os.kill) is an  *)
(* input of the action, drawn from the small sets defined below.           *)
(*                                                                         *)
(* Text is a sequence of one-character strings, so that substring tests,   *)
(* lower-casing, str(pid) and int(text) are computed, not assumed.         *)
(* A Python value that may be None is a sequence of length <= 1:           *)
(* <<>> is None and <<v>> is the value v.                                  *)
(***************************************************************************)
EXTENDS Integers, Sequences, FiniteSets, TLC

----------------------------------------------------------------------------
(* Bounds of the model                                                     *)

\* how many background processes an enumeration may hold beyond the row limit
MaxExtra == 1
\* the operator highlights one of the first MaxCursor rows
MaxCursor == 2

----------------------------------------------------------------------------
(* Program constants                                                       *)

\* processes[:30]
MaxRows == 30
\* proc['name'][:30]
NameWidth == 30
\* bar_width = 20 (both widgets)
bar_width == 20
\* per_core[:8]
MaxCoresShown == 8

----------------------------------------------------------------------------
(* Text                                                                    *)

None == <<>>
Some(v) == <<v>>

\* x or default, for a numeric x
OrNum(x, default) == IF x = None \/ x[1] = 0 THEN default ELSE x[1]
\* x or default, for a text x
OrText(x, default) == IF x = None \/ x[1] = <<>> THEN default ELSE x[1]
\* x or default, for a status word x
OrWord(x, default) == IF x = None \/ x[1] = "" THEN default ELSE x[1]

LowerChar(c) ==
  CASE c = "A" -> "a"
    [] c = "B" -> "b"
    [] c = "U" -> "u"
    [] c = "Z" -> "z"
    [] OTHER -> c

\* str.lower()
Lower(s) == [i \in 1..Len(s) |-> LowerChar(s[i])]

\* needle in hay
Contains(hay, needle) ==
  \E i \in 0..(Len(hay) - Len(needle)) :
    \A j \in 1..Len(needle) : hay[i + j] = needle[j]

\* s[:n]
Take(s, n) == IF Len(s) <= n THEN s ELSE SubSeq(s, 1, n)

DigitChar == <<"0", "1", "2", "3", "4", "5", "6", "7", "8", "9">>

RECURSIVE StrNat(_)
\* str(n) for n >= 0
StrNat(n) ==
  IF n < 10 THEN <<DigitChar[n + 1]>>
  ELSE Append(StrNat(n \div 10), DigitChar[(n % 10) + 1])

DigitValue(c) == CHOOSE d \in 0..9 : DigitChar[d + 1] = c

RECURSIVE IntOf(_)
\* int(s) for a text of decimal digits
IntOf(s) ==
  IF Len(s) = 1 THEN DigitValue(s[1])
  ELSE 10 * IntOf(SubSeq(s, 1, Len(s) - 1)) + DigitValue(s[Len(s)])

Unknown == <<"U", "n", "k", "n", "o", "w", "n">>

----------------------------------------------------------------------------
(* What psutil.process_iter yields                                         *)

\* proc.info of one process: a dict of the five requested attributes, or the
\* exception the read raises (raises = "" when it raises nothing)
Info(pid, name, cpu, mem, status) ==
  [raises |-> "", pid |-> pid, name |-> name, cpu_percent |-> cpu,
   memory_percent |-> mem, status |-> status]

Raises(exc, pid) ==
  [raises |-> exc, pid |-> pid, name |-> None, cpu_percent |-> None,
   memory_percent |-> None, status |-> None]

\* the exceptions that skip one process
SkippedErrors == {"NoSuchProcess", "AccessDenied", "ZombieProcess"}

LongName == [i \in 1..(NameWidth + 1) |-> IF i > NameWidth THEN "z" ELSE "x"]

P1    == Info(1, Some(<<"A", "b">>), Some(30), Some(2), Some("running"))
P12   == Info(12, Some(<<"x", "A", "B">>), Some(30), Some(8), Some("sleeping"))
P2    == Info(2, None, None, None, None)
P0    == Info(0, Some(<<"A", "b">>), Some(95), Some(12), Some("running"))
PLong == Info(21, Some(LongName), Some(0), Some(0), Some("sleeping"))
PBare == Info(3, Some(<<>>), Some(60), Some(12), Some("stopped"))
Vanished == Raises("NoSuchProcess", 7)
Denied   == Raises("AccessDenied", 8)
Zombie   == Raises("ZombieProcess", 9)

\* background processes 101, 102, ... with CPU readings 60, 30, 20, 60, ...
BulkCpu(i) == IF i % 3 = 1 THEN 60 ELSE IF i % 3 = 2 THEN 30 ELSE 20
Bulk(k) ==
  [i \in 1..k |->
     Info(100 + i, Some(<<"b", "g">>), Some(BulkCpu(i)), Some(i % 7), Some("sleeping"))]

BulkSizes == {0, MaxRows - 1, MaxRows + MaxExtra}

\* the foreground processes of an enumeration: those read before the background
\* processes and those read after them
Foreground ==
  << << <<>>, <<>> >>,
     << <<P1, Vanished, P12>>, <<>> >>,
     << <<P12>>, <<P1>> >>,
     << <<P2, P0, Denied>>, <<>> >>,
     << <<Zombie>>, <<PLong, PBare>> >> >>

\* an enumeration is named by its foreground and the number of its background
\* processes; ReadsOf is the sequence of reads it yields
Enumerations == [fg : 1..Len(Foreground), bulk : BulkSizes]
ReadsOf(e) == Foreground[e.fg][1] \o Bulk(e.bulk) \o Foreground[e.fg][2]

\* the exceptions the enumeration primitive itself, or a counter read, may raise
OSErrors == {"ProcessLookupError", "PermissionError", "OSError"}

\* the answer of one call of psutil.process_iter, iterated to its end: the
\* enumeration it yields, or the exception it raises (raises = "" when it raises
\* nothing)
Yields(e) == [raises |-> "", enum |-> e]
EnumFails(exc) == [raises |-> exc, enum |-> [fg |-> 1, bulk |-> 0]]
EnumAnswers == { Yields(e) : e \in Enumerations } \cup { EnumFails(x) : x \in OSErrors }

\* what the operator may type in the search input
Queries == { <<>>, <<"A", "B">>, <<"1">>, <<"z">> }

----------------------------------------------------------------------------
(* ProcessTable.refresh_processes, step by step                            *)

\* lines 99-105: the dict appended for one process
ProcDict(info) ==
  [pid    |-> info.pid,
   name   |-> OrText(info.name, Unknown),
   cpu    |-> OrNum(info.cpu_percent, 0),
   memory |-> OrNum(info.memory_percent, 0),
   status |-> OrWord(info.status, "unknown")]

\* the test written with >= : pid 0 is kept
KeepsPidZero(info) == info.pid >= 0

\* line 98
KeepsPid(info) == info.pid > 0

RECURSIVE CollectAborting(_)
\* the try around the whole loop instead of inside it: the first failing read
\* ends the batch
CollectAborting(reads) ==
  IF reads = <<>> THEN <<>>
  ELSE LET r == Head(reads)
       IN IF r.raises \in SkippedErrors THEN <<>>
          ELSE IF KeepsPid(r) THEN <<ProcDict(r)>> \o CollectAborting(Tail(reads))
          ELSE CollectAborting(Tail(reads))

RECURSIVE Collect(_)
\* lines 93-107: the loop over the enumeration
Collect(reads) ==
  IF reads = <<>> THEN <<>>
  ELSE LET r == Head(reads)
           rest == Collect(Tail(reads))
       IN IF r.raises \in SkippedErrors THEN rest
          ELSE IF KeepsPid(r) THEN <<ProcDict(r)>> \o rest
          ELSE rest

\* reverse=True forgotten: ascending order
SortPositionAscending(sorted, x) ==
  Cardinality({ i \in 1..Len(sorted) : sorted[i].cpu <= x.cpu })

\* an unstable order: x goes before the elements of equal cpu
SortPositionBeforeTies(sorted, x) ==
  Cardinality({ i \in 1..Len(sorted) : sorted[i].cpu > x.cpu })

\* where x goes in a list sorted by descending cpu, x being later in the
\* original order than all of its elements: after every element with cpu >= x.cpu
SortPosition(sorted, x) == Cardinality({ i \in 1..Len(sorted) : sorted[i].cpu >= x.cpu })

RECURSIVE SortByCpu(_)
\* line 110: processes.sort(key=cpu, reverse=True), a stable sort
SortByCpu(ps) ==
  IF ps = <<>> THEN <<>>
  ELSE LET x == ps[Len(ps)]
           sorted == SortByCpu(SubSeq(ps, 1, Len(ps) - 1))
           k == SortPosition(sorted, x)
       IN SubSeq(sorted, 1, k) \o <<x>> \o SubSeq(sorted, k + 1, Len(sorted))

\* lines 115-116
Matches(p, search_query) ==
  \/ Contains(Lower(p.name), Lower(search_query))
  \/ Contains(StrNat(p.pid), search_query)

RECURSIVE KeepMatching(_, _)
KeepMatching(ps, search_query) ==
  IF ps = <<>> THEN <<>>
  ELSE IF Matches(Head(ps), search_query)
       THEN <<Head(ps)>> \o KeepMatching(Tail(ps), search_query)
       ELSE KeepMatching(Tail(ps), search_query)

\* the filter left out
FilterSkipped(ps, search_query) == ps

\* lines 113-116
Filter(ps, search_query) ==
  IF search_query # <<>> THEN KeepMatching(ps, search_query) ELSE ps

\* the slice forgotten
FirstRowsUnbounded(ps) == ps

\* line 119: processes[:30]
FirstRows(ps) == Take(ps, MaxRows)

\* lines 120-121
cpu_style(cpu) == IF cpu > 50 THEN "red" ELSE IF cpu > 20 THEN "yellow" ELSE "green"
mem_style(memory) == IF memory > 10 THEN "red" ELSE IF memory > 5 THEN "yellow" ELSE "green"

\* lines 123-130: the row added for one process.  The readings of this model are
\* whole percents, which "{:.1f}" prints exactly.
RowOf(proc) ==
  [key |-> StrNat(proc.pid),
   cells |-> << StrNat(proc.pid),
                Take(proc.name, NameWidth),
                [style |-> cpu_style(proc.cpu), text |-> proc.cpu],
                [style |-> mem_style(proc.memory), text |-> proc.memory],
                proc.status >>]

\* the slice of line 119 taken before the filter of lines 113-116
SnapshotSlicedFirst(reads, search_query) ==
  Filter(FirstRows(SortByCpu(Collect(reads))), search_query)

\* lines 93-119: the list the rows are built from
Snapshot(reads, search_query) ==
  FirstRows(Filter(SortByCpu(Collect(reads)), search_query))

\* Snapshot, tabulated once over the inputs of the model
SnapshotTable ==
  { [enum |-> e, query |-> q, result |-> Snapshot(ReadsOf(e), q)] :
      e \in Enumerations, q \in Queries }

SnapshotOf(e, q) == (CHOOSE t \in SnapshotTable : t.enum = e /\ t.query = q).result

\* lines 119-130: one row per process of the list, in its order
RowsOf(ps) == [i \in 1..Len(ps) |-> RowOf(ps[i])]

----------------------------------------------------------------------------
(* What psutil's counter reads answer                                      *)

\* psutil.cpu_percent(interval=0.1)
AggregateAnswers ==
  { [raises |-> "", value |-> v] : v \in {40, 65, 95} } \cup
  { [raises |-> "OSError", value |-> 0] }

NineCores == [i \in 1..(MaxCoresShown + 1) |-> IF i > MaxCoresShown THEN 95 ELSE 40]

\* psutil.cpu_percent(interval=0.1, percpu=True)
PerCoreAnswers ==
  { [raises |-> "", value |-> c] : c \in { <<40, 95>>, NineCores } } \cup
  { [raises |-> "OSError", value |-> <<>>] }

\* psutil.cpu_count(logical=False) and psutil.cpu_count(logical=True)
CoreCountAnswers ==
  { [raises |-> "", physical |-> 1, logical |-> 2],
    [raises |-> "OSError", physical |-> 0, logical |-> 0] }

\* psutil.virtual_memory(): percent, used, total, available
MemoryAnswers ==
  { [raises |-> "", percent |-> 50, used |-> 512, total |-> 1024, available |-> 512],
    [raises |-> "", percent |-> 90, used |-> 1887437, total |-> 2097152, available |-> 209715],
    [raises |-> "OSError", percent |-> 0, used |-> 0, total |-> 0, available |-> 0] }

\* psutil.swap_memory(): percent, used, total
SwapAnswers ==
  { [raises |-> "", percent |-> 25, used |-> 1536, total |-> 6144],
    [raises |-> "OSError", percent |-> 0, used |-> 0, total |-> 0] }

\* os.kill(pid, signal.SIGKILL): "" when the signal was delivered, or the exception
SignalAnswers == {"", "ProcessLookupError", "PermissionError", "OSError"}

----------------------------------------------------------------------------
(* The state                                                               *)

VARIABLES
  cpu_percent,   \* CPUWidget.cpu_percent, the reactive attribute
  cpu_text,      \* what CPUWidget last passed to update(): None before the first
  mem_text,      \* what MemoryWidget last passed to update(): None before the first
  snapshot,      \* the processes the ProcessTable holds a row for, in display order
  cursor_row,    \* ProcessTable.cursor_row
  search_value,  \* the value of the search Input
  message,       \* the content of the message Label
  timers,        \* the widgets whose on_mount installed its interval timer
  fault,         \* the exception that left a handler uncaught: None while the app runs
  source,        \* history: the enumeration answer and the search_query argument of
                 \* the most recent call of refresh_processes, and whether the
                 \* call before it was given the same two
  last           \* history: what the most recent handler did

vars == << cpu_percent, cpu_text, mem_text, snapshot, cursor_row,
           search_value, message, timers, fault, source, last >>

sampler_vars == << cpu_percent, cpu_text, mem_text >>
table_vars == << snapshot, cursor_row, source >>

\* the rows of the ProcessTable: what add_row made of each process
rows == RowsOf(snapshot)

\* the record of a handler: its name, the search_query arguments it passed to
\* refresh_processes (in order), the pid it signalled (0: none), the answer of
\* os.kill ("-": not called) and the branch of kill_process that ended it
Did(op, refreshed) ==
  [op |-> op, refreshed |-> refreshed, pid |-> 0, signal |-> "-", outcome |-> ""]

Init ==
  /\ cpu_percent = 0
  /\ cpu_text = None
  /\ mem_text = None
  /\ snapshot = <<>>
  /\ cursor_row = 0
  /\ search_value = <<>>
  /\ message = [color |-> "", text |-> "", arg |-> <<>>]
  /\ timers = {}
  /\ fault = None
  /\ source = [raises |-> "", enum |-> [fg |-> 1, bulk |-> 0], query |-> <<>>,
               again |-> FALSE]
  /\ last = Did("init", <<>>)

\* an exception that no handler catches reaches the event loop, which ends the app
Running == fault = None

----------------------------------------------------------------------------
(* CPUWidget                                                               *)

\* the comparisons written with <= : a reading on a breakpoint falls in the band below
cpu_color_inclusive(v) == IF v <= 50 THEN "green" ELSE IF v <= 80 THEN "yellow" ELSE "red"

\* lines 31 and 36: "green" if v < 50 else "yellow" if v < 80 else "red"
cpu_color(v) == IF v < 50 THEN "green" ELSE IF v < 80 THEN "yellow" ELSE "red"

\* int((percent / 100) * bar_width): int() rounds towards zero
Filled(percent) ==
  IF percent >= 0 THEN (percent * bar_width) \div 100
  ELSE -(((-percent) * bar_width) \div 100)

\* lines 31-42: the text passed to update()
CpuText(overall, per_core, counts) ==
  [color |-> cpu_color(overall),
   filled |-> Filled(overall),
   empty |-> bar_width - Filled(overall),
   percent |-> overall,
   physical |-> counts.physical,
   logical |-> counts.logical,
   cores |-> [i \in 1..Len(Take(per_core, MaxCoresShown)) |->
                [color |-> cpu_color(per_core[i]), text |-> per_core[i]]]]

\* lines 27-42, given what the three reads answer.  The aggregate reading is
\* assigned to cpu_percent before the per-core read is made.
update_cpu(agg, cores, counts) ==
  IF agg.raises # ""
  THEN /\ fault' = Some(agg.raises)
       /\ UNCHANGED << cpu_percent, cpu_text >>
  ELSE /\ cpu_percent' = agg.value
       /\ IF cores.raises # ""
          THEN fault' = Some(cores.raises) /\ UNCHANGED cpu_text
          ELSE IF counts.raises # ""
          THEN fault' = Some(counts.raises) /\ UNCHANGED cpu_text
          ELSE /\ cpu_text' = Some(CpuText(agg.value, cores.value, counts))
               /\ UNCHANGED fault

\* lines 23-25: the first update, then the 1.5 s timer
CPUWidget_on_mount(agg, cores, counts) ==
  /\ Running
  /\ "cpu" \notin timers
  /\ update_cpu(agg, cores, counts)
  /\ timers' = IF fault' = None THEN timers \cup {"cpu"} ELSE timers
  /\ last' = Did("cpu_mount", <<>>)
  /\ UNCHANGED << mem_text, search_value, message >>
  /\ UNCHANGED table_vars

\* a tick of the 1.5 s timer of line 25
CPUTick(agg, cores, counts) ==
  /\ Running
  /\ "cpu" \in timers
  /\ update_cpu(agg, cores, counts)
  /\ last' = Did("cpu_tick", <<>>)
  /\ UNCHANGED << mem_text, search_value, message, timers >>
  /\ UNCHANGED table_vars

----------------------------------------------------------------------------
(* MemoryWidget                                                            *)

Units == <<"B", "KB", "MB", "GB", "TB">>

\* f"{x:.1f}" of x = n / d, in tenths: the nearest tenth, ties to even
Tenths(n, d) ==
  LET q == (10 * n) \div d
      r == (10 * n) % d
  IN IF 2 * r > d THEN q + 1
     ELSE IF 2 * r = d THEN q + (q % 2)
     ELSE q

RECURSIVE FormatFrom(_, _, _)
\* the loop of lines 53-57 from unit number u on, the value being n / d
FormatFrom(n, d, u) ==
  IF u > Len(Units) THEN [tenths |-> Tenths(n, d), unit |-> "PB"]
  ELSE IF n < 1024 * d THEN [tenths |-> Tenths(n, d), unit |-> Units[u]]
  ELSE FormatFrom(n, d * 1024, u + 1)

\* lines 52-57
format_bytes(bytes_val) == FormatFrom(bytes_val, 1, 1)

\* the memory bar coloured with the breakpoints of the CPU bar
mem_color_cpu_breakpoints(v) == IF v < 50 THEN "green" ELSE IF v < 80 THEN "yellow" ELSE "red"

\* line 63
mem_color(v) == IF v < 60 THEN "green" ELSE IF v < 85 THEN "yellow" ELSE "red"

\* lines 63-78: the text passed to update()
MemText(mem, swap) ==
  [color |-> mem_color(mem.percent),
   filled |-> Filled(mem.percent),
   empty |-> bar_width - Filled(mem.percent),
   percent |-> mem.percent,
   used |-> format_bytes(mem.used),
   total |-> format_bytes(mem.total),
   available |-> format_bytes(mem.available),
   swap_filled |-> Filled(swap.percent),
   swap_empty |-> bar_width - Filled(swap.percent),
   swap_percent |-> swap.percent,
   swap_used |-> format_bytes(swap.used),
   swap_total |-> format_bytes(swap.total)]

\* lines 59-78, given what the two reads answer
update_memory(mem, swap) ==
  IF mem.raises # ""
  THEN fault' = Some(mem.raises) /\ UNCHANGED mem_text
  ELSE IF swap.raises # ""
  THEN fault' = Some(swap.raises) /\ UNCHANGED mem_text
  ELSE mem_text' = Some(MemText(mem, swap)) /\ UNCHANGED fault

\* lines 48-50
MemoryWidget_on_mount(mem, swap) ==
  /\ Running
  /\ "mem" \notin timers
  /\ update_memory(mem, swap)
  /\ timers' = IF fault' = None THEN timers \cup {"mem"} ELSE timers
  /\ last' = Did("mem_mount", <<>>)
  /\ UNCHANGED << cpu_percent, cpu_text, search_value, message >>
  /\ UNCHANGED table_vars

\* a tick of the 1.5 s timer of line 50
MemoryTick(mem, swap) ==
  /\ Running
  /\ "mem" \in timers
  /\ update_memory(mem, swap)
  /\ last' = Did("mem_tick", <<>>)
  /\ UNCHANGED << cpu_percent, cpu_text, search_value, message, timers >>
  /\ UNCHANGED table_vars

----------------------------------------------------------------------------
(* ProcessTable                                                            *)

\* line 92 left out: the rows of the refresh before stay in the table
refresh_processes_without_clear(search_query, answer) ==
  /\ source' = [raises |-> answer.raises, enum |-> answer.enum, query |-> search_query,
                again |-> /\ "proc" \in timers
                          /\ source.raises = "" /\ answer.raises = ""
                          /\ answer.enum = source.enum
                          /\ search_query = source.query]
  /\ cursor_row' = cursor_row
  /\ snapshot' = IF answer.raises # "" THEN snapshot
                 ELSE snapshot \o SnapshotOf(answer.enum, search_query)

\* lines 91-130, given what the enumeration answers: the table is cleared first
\* (DataTable.clear also puts the cursor back on row 0); an exception of the
\* enumeration leaves the loop and the function with the table cleared
refresh_processes(search_query, answer) ==
  /\ source' = [raises |-> answer.raises, enum |-> answer.enum, query |-> search_query,
                again |-> /\ "proc" \in timers
                          /\ source.raises = "" /\ answer.raises = ""
                          /\ answer.enum = source.enum
                          /\ search_query = source.query]
  /\ cursor_row' = 0
  /\ snapshot' = IF answer.raises # "" THEN <<>>
                 ELSE SnapshotOf(answer.enum, search_query)

\* the search_query of a call that passes no argument (line 91)
DefaultQuery == <<>>

\* lines 84-89: the first refresh, then the 2.0 s timer
ProcessTable_on_mount(answer) ==
  /\ Running
  /\ "proc" \notin timers
  /\ refresh_processes(DefaultQuery, answer)
  /\ fault' = IF answer.raises # "" THEN Some(answer.raises) ELSE None
  /\ timers' = IF answer.raises # "" THEN timers ELSE timers \cup {"proc"}
  /\ last' = Did("table_mount", <<DefaultQuery>>)
  /\ UNCHANGED << search_value, message >>
  /\ UNCHANGED sampler_vars

\* the query a tick of the timer refreshes with: set_interval(2.0,
\* self.refresh_processes) calls it without an argument
TimerQuery == DefaultQuery

\* a tick of the 2.0 s timer of line 89
ProcessTick(answer) ==
  /\ Running
  /\ "proc" \in timers
  /\ refresh_processes(TimerQuery, answer)
  /\ fault' = IF answer.raises # "" THEN Some(answer.raises) ELSE None
  /\ last' = Did("table_tick", <<TimerQuery>>)
  /\ UNCHANGED << search_value, message, timers >>
  /\ UNCHANGED sampler_vars

----------------------------------------------------------------------------
(* TaskManagerApp                                                          *)

\* lines 293-296: the label shows the text in red or green
Shown(text, arg, error) ==
  [color |-> IF error THEN "red" ELSE "green", text |-> text, arg |-> arg]

\* the operator edits the search Input (line 212)
TypeQuery(q) ==
  /\ Running
  /\ "proc" \in timers
  /\ q # search_value
  /\ search_value' = q
  /\ last' = Did("type", <<>>)
  /\ UNCHANGED << message, timers, fault >>
  /\ UNCHANGED sampler_vars
  /\ UNCHANGED table_vars

\* the operator moves the table cursor to a row (cursor_type = "row", line 86)
Highlight(i) ==
  /\ Running
  /\ "proc" \in timers
  /\ i < Len(snapshot)
  /\ i # cursor_row
  /\ cursor_row' = i
  /\ last' = Did("highlight", <<>>)
  /\ UNCHANGED << snapshot, source, search_value, message, timers, fault >>
  /\ UNCHANGED sampler_vars

\* lines 248-252 (the Search button and Enter in the input, lines 235-236, 246)
action_search(answer) ==
  /\ Running
  /\ "proc" \in timers
  /\ refresh_processes(search_value, answer)
  /\ IF answer.raises # ""
     THEN fault' = Some(answer.raises) /\ UNCHANGED message
     ELSE /\ message' = IF search_value # <<>>
                        THEN Shown("Filtered by: {}", search_value, FALSE)
                        ELSE Shown("Showing all", <<>>, FALSE)
          /\ UNCHANGED fault
  /\ last' = Did("search", <<search_value>>)
  /\ UNCHANGED << search_value, timers >>
  /\ UNCHANGED sampler_vars

\* lines 254-259 (the Clear button)
action_clear_search(answer) ==
  /\ Running
  /\ "proc" \in timers
  /\ search_value' = <<>>
  /\ refresh_processes(<<>>, answer)
  /\ IF answer.raises # ""
     THEN fault' = Some(answer.raises) /\ UNCHANGED message
     ELSE message' = Shown("Search cleared", <<>>, FALSE) /\ UNCHANGED fault
  /\ last' = Did("clear_search", << <<>> >>)
  /\ UNCHANGED timers
  /\ UNCHANGED sampler_vars

\* lines 261-265 (the Refresh button and the r key)
action_refresh(answer) ==
  /\ Running
  /\ "proc" \in timers
  /\ refresh_processes(search_value, answer)
  /\ IF answer.raises # ""
     THEN fault' = Some(answer.raises) /\ UNCHANGED message
     ELSE message' = Shown("Refreshed", <<>>, FALSE) /\ UNCHANGED fault
  /\ last' = Did("refresh", <<search_value>>)
  /\ UNCHANGED << search_value, timers >>
  /\ UNCHANGED sampler_vars

\* lines 298-299 (the escape key): only the message changes
action_clear_selection ==
  /\ Running
  /\ "proc" \in timers
  /\ message' = Shown("", <<>>, FALSE)
  /\ last' = Did("clear_selection", <<>>)
  /\ UNCHANGED << search_value, timers, fault >>
  /\ UNCHANGED sampler_vars
  /\ UNCHANGED table_vars

\* lines 286-291: the except clause that catches exc, as the branch taken and
\* the message it shows
Caught(exc, pid) ==
  CASE exc = "ProcessLookupError" ->
         [outcome |-> "NotFound",
          message |-> Shown("Process {} not found", StrNat(pid), TRUE)]
    [] exc = "PermissionError" ->
         [outcome |-> "PermissionDenied",
          message |-> Shown("Permission denied for PID {}", StrNat(pid), TRUE)]
    [] OTHER ->
         [outcome |-> "Failed", message |-> Shown("Error: {}", <<exc>>, TRUE)]

\* the refresh after a kill called without the query
kill_process_default_query(pid, signal, answer) ==
  IF signal = ""
  THEN /\ refresh_processes(DefaultQuery, answer)
       /\ message' = IF answer.raises = ""
                     THEN Shown("Refreshed", <<>>, FALSE)
                     ELSE Caught(answer.raises, pid).message
       /\ last' = [op |-> "kill", refreshed |-> <<DefaultQuery>>, pid |-> pid,
                   signal |-> signal,
                   outcome |-> IF answer.raises = "" THEN "Success"
                               ELSE Caught(answer.raises, pid).outcome]
  ELSE /\ message' = Caught(signal, pid).message
       /\ last' = [op |-> "kill", refreshed |-> <<>>, pid |-> pid,
                   signal |-> signal, outcome |-> Caught(signal, pid).outcome]
       /\ UNCHANGED table_vars

\* the refresh moved behind the try statement: it runs after a failed kill too
kill_process_always_refreshing(pid, signal, answer) ==
  /\ refresh_processes(search_value, answer)
  /\ message' = IF signal # "" THEN Caught(signal, pid).message
                ELSE IF answer.raises = "" THEN Shown("Refreshed", <<>>, FALSE)
                ELSE Caught(answer.raises, pid).message
  /\ last' = [op |-> "kill", refreshed |-> <<search_value>>, pid |-> pid,
              signal |-> signal,
              outcome |-> IF signal # "" THEN Caught(signal, pid).outcome
                          ELSE IF answer.raises = "" THEN "Success"
                          ELSE Caught(answer.raises, pid).outcome]

\* lines 280-291, given what os.kill and the enumeration of the refresh answer.
\* action_refresh runs inside the try block: the message "Killed process {pid}"
\* is replaced by "Refreshed", or by the message of the except clause that
\* catches what the refresh raises.
kill_process(pid, signal, answer) ==
  IF signal = ""
  THEN /\ refresh_processes(search_value, answer)
       /\ message' = IF answer.raises = ""
                     THEN Shown("Refreshed", <<>>, FALSE)
                     ELSE Caught(answer.raises, pid).message
       /\ last' = [op |-> "kill", refreshed |-> <<search_value>>, pid |-> pid,
                   signal |-> signal,
                   outcome |-> IF answer.raises = "" THEN "Success"
                               ELSE Caught(answer.raises, pid).outcome]
  ELSE /\ message' = Caught(signal, pid).message
       /\ last' = [op |-> "kill", refreshed |-> <<>>, pid |-> pid,
                   signal |-> signal, outcome |-> Caught(signal, pid).outcome]
       /\ UNCHANGED table_vars

\* what DataTable.get_row_at raises for a row that does not exist: an IndexError,
\* which line 275 catches, or the library's own RowDoesNotExist, which it does not
RowErrors == {"IndexError", "RowDoesNotExist"}

\* what the operating system and the table answer to one kill request: the error
\* of get_row_at when the cursor is on no row; else the answer of os.kill and,
\* when the signal was delivered, the enumeration of the refresh that follows
NoAnswer == Yields([fg |-> 1, bulk |-> 0])
KillAnswers ==
  { [row_error |-> x, signal |-> "", answer |-> NoAnswer] : x \in RowErrors } \cup
  { [row_error |-> "", signal |-> x, answer |-> NoAnswer] : x \in SignalAnswers \ {""} } \cup
  { [row_error |-> "", signal |-> "", answer |-> a] : a \in EnumAnswers }

\* lines 267-278 (the KILL button and the k key).  cursor_row is a row number,
\* never None, so line 278 is not reached.
action_kill_selected(os) ==
  /\ Running
  /\ "proc" \in timers
  /\ IF cursor_row >= Len(snapshot)
     THEN /\ os.row_error # ""
          /\ IF os.row_error = "IndexError"
             THEN /\ message' = Shown("No process selected", <<>>, TRUE)
                  /\ UNCHANGED fault
             ELSE /\ fault' = Some(os.row_error)
                  /\ UNCHANGED message
          /\ last' = Did("kill_selected", <<>>)
          /\ UNCHANGED table_vars
     ELSE /\ os.row_error = ""
          /\ kill_process(IntOf(rows[cursor_row + 1].cells[1]), os.signal, os.answer)
          /\ UNCHANGED fault
  /\ UNCHANGED << search_value, timers >>
  /\ UNCHANGED sampler_vars

----------------------------------------------------------------------------
(* Specifications                                                          *)
(*                                                                         *)
(* The handlers of the two sampler widgets and the handlers of the         *)
(* operator share no variable but fault, timers and the history variable   *)
(* last.  Spec is the process table under its timer and the operator's     *)
(* handlers; ProducerSpec is the three producers under their timers;       *)
(* ProgramSpec is the whole program.  ClassifierSpec is the two sampler    *)
(* widgets fed readings on and around the breakpoints of their colours.    *)

\* the three producers: the mounts and the timer ticks
ProducerNext ==
  \/ \E agg \in AggregateAnswers, cores \in PerCoreAnswers, counts \in CoreCountAnswers :
       CPUWidget_on_mount(agg, cores, counts)
  \/ \E agg \in AggregateAnswers, cores \in PerCoreAnswers, counts \in CoreCountAnswers :
       CPUTick(agg, cores, counts)
  \/ \E mem \in MemoryAnswers, swap \in SwapAnswers : MemoryWidget_on_mount(mem, swap)
  \/ \E mem \in MemoryAnswers, swap \in SwapAnswers : MemoryTick(mem, swap)
  \/ \E answer \in EnumAnswers : ProcessTable_on_mount(answer)
  \/ \E answer \in EnumAnswers : ProcessTick(answer)

\* the process table and the operator's handlers
Next ==
  \/ \E answer \in EnumAnswers : ProcessTable_on_mount(answer)
  \/ \E answer \in EnumAnswers : ProcessTick(answer)
  \/ \E q \in Queries : TypeQuery(q)
  \/ \E i \in 0..(MaxCursor - 1) : Highlight(i)
  \/ \E answer \in EnumAnswers : action_search(answer)
  \/ \E answer \in EnumAnswers : action_clear_search(answer)
  \/ \E answer \in EnumAnswers : action_refresh(answer)
  \/ action_clear_selection
  \/ \E os \in KillAnswers : action_kill_selected(os)

\* readings on, next to and far from the breakpoints of the two colour scales,
\* among them readings below 0 and above 100
Readings == {-5, 0, 40, 49, 50, 59, 60, 65, 79, 80, 84, 85, 95, 140}

\* the CPU and memory reads answering with the readings above
ReadingAggregates == { [raises |-> "", value |-> v] : v \in Readings }
ReadingCores ==
  { [raises |-> "", value |-> c] : c \in { <<-5, 49, 50>>, <<79, 80, 140>> } }
ReadingCounts == { [raises |-> "", physical |-> 1, logical |-> 2] }
ReadingMemory ==
  { [raises |-> "", percent |-> v, used |-> 512, total |-> 1024, available |-> 512] :
      v \in Readings }
ReadingSwap == { [raises |-> "", percent |-> 25, used |-> 1536, total |-> 6144] }

\* the two sampler widgets, fed every reading
ClassifierNext ==
  \/ \E agg \in ReadingAggregates, cores \in ReadingCores, counts \in ReadingCounts :
       CPUWidget_on_mount(agg, cores, counts)
  \/ \E agg \in ReadingAggregates, cores \in ReadingCores, counts \in ReadingCounts :
       CPUTick(agg, cores, counts)
  \/ \E mem \in ReadingMemory, swap \in ReadingSwap : MemoryWidget_on_mount(mem, swap)
  \/ \E mem \in ReadingMemory, swap \in ReadingSwap : MemoryTick(mem, swap)

Spec == Init /\ [][Next]_vars

ProducerSpec == Init /\ [][ProducerNext]_vars

ProgramSpec == Init /\ [][Next \/ ProducerNext]_vars

ClassifierSpec == Init /\ [][ClassifierNext]_vars

----------------------------------------------------------------------------
(* Properties                                                              *)

\* the reads of each enumeration, tabulated once
ReadsTable == { [enum |-> e, reads |-> ReadsOf(e)] : e \in Enumerations }

\* the reads of the enumeration behind the table
Reads == (CHOOSE t \in ReadsTable : t.enum = source.enum).reads

\* among reads: those that raised nothing, and those of them with a pid > 0
SucceededIn(reads) == { j \in 1..Len(reads) : reads[j].raises = "" }
CollectableIn(reads) == { j \in 1..Len(reads) : reads[j].raises = "" /\ reads[j].pid > 0 }

PidsShown == { snapshot[i].pid : i \in 1..Len(snapshot) }

\* the handler that ran last called refresh_processes, and its enumeration
\* raised nothing
Refreshed == last.refreshed # <<>> /\ source.raises = ""

\* a record answers the query q
Answers(p, q) ==
  \/ Contains(Lower(p.name), Lower(q))
  \/ Contains(StrNat(p.pid), q)

\* C1: whatever sequence of timer-driven and on-demand refreshes ran, the table
\* holds at most 30 rows: the rows of earlier refreshes never accumulate.
C1_AtMostThirtyRows == Len(rows) <= MaxRows

\* C1 witness: a refresh of an enumeration with more than 30 collectable
\* processes, all of which pass the filter, left exactly 30 rows
C1_Witness ==
  /\ Refreshed
  /\ source.query = <<>>
  /\ Cardinality(CollectableIn(Reads)) > MaxRows
  /\ Len(rows) = MaxRows

\* C2: the records of the table are in non-increasing order of CPU reading,
\* a missing reading counting as 0.
C2_DescendingCpu ==
  \A i \in 1..(Len(snapshot) - 1) : snapshot[i].cpu >= snapshot[i + 1].cpu

\* C2 witness: the enumeration yielded a process without a CPU reading before
\* processes with higher readings, and the table shows it after them
C2_Witness ==
  LET reads == Reads
  IN /\ Refreshed
     /\ Len(snapshot) > 2
     /\ reads[1].raises = "" /\ reads[1].cpu_percent = None
     /\ snapshot[Len(snapshot)].pid = reads[1].pid
     /\ snapshot[Len(snapshot)].cpu = 0
     /\ snapshot[1].cpu > snapshot[Len(snapshot) - 1].cpu
     /\ snapshot[Len(snapshot) - 1].cpu > 0

\* C3: after refresh(q) with a non-empty q every record's name contains q
\* case-insensitively or its pid in decimal contains q; with the empty q no
\* record is filtered out; a query no process answers gives an empty table and
\* no error.
C3_FilteredByQuery ==
  Refreshed =>
    LET reads == Reads
        n == Cardinality(CollectableIn(reads))
    IN /\ source.query # <<>> =>
            \A i \in 1..Len(snapshot) : Answers(snapshot[i], source.query)
       /\ source.query = <<>> =>
            Len(snapshot) = IF n < MaxRows THEN n ELSE MaxRows
       /\ (\A j \in CollectableIn(reads) : ~Answers(ProcDict(reads[j]), source.query)) =>
            snapshot = <<>>
       /\ fault = None

\* C3 witness: a query that only pids answer kept some processes and dropped others
C3_Witness ==
  /\ Refreshed
  /\ source.query = <<"1">>
  /\ Len(snapshot) > 0
  /\ Len(snapshot) < Cardinality(CollectableIn(Reads))
  /\ \E i \in 1..Len(snapshot) : ~Contains(Lower(snapshot[i].name), <<"1">>)

\* C4: when reads of single processes fail (vanished, access denied, zombie)
\* the refresh does not fail and the table is built from exactly the processes
\* whose read succeeded: every record comes from a successful read, and with
\* the empty query and at most 30 of them every successfully read process
\* (pid > 0) has its record; one vanished process of three leaves two records.
C4_FailedReadsSkipped ==
  Refreshed =>
    LET reads == Reads
        ok == SucceededIn(reads)
        kept == CollectableIn(reads)
    IN /\ fault = None
       /\ \A i \in 1..Len(snapshot) : \E j \in ok : snapshot[i].pid = reads[j].pid
       /\ (source.query = <<>> /\ Cardinality(kept) <= MaxRows) =>
            /\ PidsShown = { reads[j].pid : j \in kept }
            /\ Len(snapshot) = Cardinality(kept)

\* C4 witness: three reads, the second a vanished process, and the two others shown
C4_Witness ==
  LET reads == Reads
  IN /\ Refreshed
     /\ source.query = <<>>
     /\ Len(reads) = 3
     /\ reads[2].raises = "NoSuchProcess"
     /\ PidsShown = {reads[1].pid, reads[3].pid}
     /\ Len(snapshot) = 2
     /\ fault = None

\* C5: a refresh whose enumeration fails leaves the rows of the table as they
\* were before it.
C5_FailedRefreshKeepsRows ==
  [][(last'.refreshed # <<>> /\ source'.raises # "") => rows' = rows]_vars

\* C6: a timer tick refreshes with the query of the refresh before it: the
\* operator's last query, or the empty query of the mount.
C6_TimerKeepsQuery ==
  [][last'.op = "table_tick" => source'.query = source.query]_vars

\* the outcome the claim assigns to an answer of os.kill
OutcomeOfSignal(signal) ==
  CASE signal = "" -> "Success"
    [] signal = "ProcessLookupError" -> "NotFound"
    [] signal = "PermissionError" -> "PermissionDenied"
    [] OTHER -> "Failed"

\* C7: the outcome of a kill is decided by the delivery of the signal alone:
\* absent -> NotFound, no privilege -> PermissionDenied, another failure ->
\* Failed, delivered -> Success.
C7_OutcomeBySignal ==
  last.op = "kill" => last.outcome = OutcomeOfSignal(last.signal)

\* C8: a kill that ends in Success has called refresh exactly once, with the
\* current query, within the same handler: the table is the snapshot of an
\* enumeration made after the signal, filtered by the current query.
C8_SuccessRefreshesOnce ==
  (last.op = "kill" /\ last.outcome = "Success") =>
    /\ last.refreshed = <<search_value>>
    /\ source.query = search_value
    /\ source.raises = ""
    /\ search_value # <<>> =>
         \A i \in 1..Len(snapshot) : Answers(snapshot[i], search_value)

\* C8 witness: a kill ended in Success under a non-empty query and the table shows
\* the processes that answer it
C8_Witness ==
  /\ last.op = "kill"
  /\ last.outcome = "Success"
  /\ last.signal = ""
  /\ search_value = <<"A", "B">>
  /\ Len(snapshot) > 0

\* C9: once the widget is mounted, the overall CPU percentage and the rendered
\* CPU reading come from the same tick, in every state: a tick whose per-core
\* or core-count read fails publishes nothing.
C9_SameTick ==
  "cpu" \in timers => (cpu_text # None /\ cpu_text[1].percent = cpu_percent)

\* C10: a read that fails during a tick of one of the three producers leaves
\* the app running, so the timers keep firing.
C10_FailedTickKeepsRunning ==
  last.op \in {"cpu_tick", "mem_tick", "table_tick"} => Running

\* the severity band of a value under the breakpoints (low, high), and the
\* colour that shows a band
classify(v, low, high) ==
  IF v < low THEN "Normal" ELSE IF v < high THEN "Warning" ELSE "Critical"
ColorOf(band) ==
  CASE band = "Normal" -> "green" [] band = "Warning" -> "yellow" [] band = "Critical" -> "red"

\* C11: every reading is classified, also one below 0, above 100 or on a
\* breakpoint: v < low is Normal, low <= v < high is Warning, v >= high is
\* Critical; the overall CPU and each core use (50, 80), memory uses (60, 85);
\* under (50, 80), 40 is Normal, 65 is Warning and 95 is Critical.
C11_ClassifyClamps ==
  /\ cpu_text # None =>
       LET t == cpu_text[1]
       IN /\ t.color = ColorOf(classify(t.percent, 50, 80))
          /\ \A i \in 1..Len(t.cores) :
               t.cores[i].color = ColorOf(classify(t.cores[i].text, 50, 80))
          /\ t.percent = 40 => t.color = ColorOf("Normal")
          /\ t.percent = 65 => t.color = ColorOf("Warning")
          /\ t.percent = 95 => t.color = ColorOf("Critical")
  /\ mem_text # None =>
       mem_text[1].color = ColorOf(classify(mem_text[1].percent, 60, 85))

\* C11 witness: the CPU bar shows a reading on its upper breakpoint as critical,
\* a core below 0 as normal and a core on the lower breakpoint as warning, and
\* the memory bar shows a reading above 100 as critical
C11_Witness ==
  /\ cpu_text # None /\ mem_text # None
  /\ cpu_text[1].percent = 80 /\ cpu_text[1].color = "red"
  /\ cpu_text[1].cores[1].text < 0 /\ cpu_text[1].cores[1].color = "green"
  /\ cpu_text[1].cores[3].text = 50 /\ cpu_text[1].cores[3].color = "yellow"
  /\ mem_text[1].percent > 100 /\ mem_text[1].color = "red"

\* C12: a kill whose signal was delivered is reported to the operator as a
\* success, whatever the refresh that follows it does: the handler ends in its
\* Success branch and the message shown is not an error message.
C12_DeliveredIsSuccess ==
  (last.op = "kill" /\ last.signal = "") =>
    /\ last.outcome = "Success"
    /\ message.color = "green"

\* among reads: the collectable ones whose record answers q
MatchingIn(reads, q) == { j \in CollectableIn(reads) : Answers(ProcDict(reads[j]), q) }

\* read j comes before read k in descending order of CPU, the enumeration
\* order breaking ties
Precedes(reads, j, k) ==
  LET cj == OrNum(reads[j].cpu_percent, 0)
      ck == OrNum(reads[k].cpu_percent, 0)
  IN cj > ck \/ (cj = ck /\ j < k)

\* C13: the filter is applied before the truncation: after refresh(q) with a
\* non-empty q the table is exactly the first 30 of the records that answer q,
\* in descending order of CPU; a record that answers q is shown whenever fewer
\* than 30 records that answer q come before it, however many records that do
\* not answer q have a higher CPU reading.
C13_FilterBeforeTruncate ==
  (Refreshed /\ source.query # <<>>) =>
    LET reads == Reads
        matching == MatchingIn(reads, source.query)
        rank == [ j \in matching |->
                    1 + Cardinality({ k \in matching : Precedes(reads, k, j) }) ]
    IN /\ Len(snapshot) = IF Cardinality(matching) < MaxRows
                          THEN Cardinality(matching) ELSE MaxRows
       /\ \A j \in matching :
            rank[j] <= MaxRows => snapshot[rank[j]] = ProcDict(reads[j])

\* C13 witness: the one process that answers the query is shown although 30 or
\* more processes that do not answer it have a higher CPU reading
C13_Witness ==
  LET reads == Reads
      matching == MatchingIn(reads, source.query)
  IN /\ Refreshed
     /\ source.query = <<"z">>
     /\ Len(snapshot) = 1
     /\ \E j \in matching :
          /\ snapshot[1].pid = reads[j].pid
          /\ Cardinality({ k \in CollectableIn(reads) \ matching :
                             Precedes(reads, k, j) }) >= MaxRows

\* C14: every record of the table has a pid > 0, a non-empty name and a
\* non-empty status: a read with pid <= 0 gives no record, a missing or empty
\* name is recorded as "Unknown", a missing status as "unknown", a missing CPU
\* or memory percentage as 0.
C14_RecordsWellFormed ==
  /\ \A i \in 1..Len(snapshot) :
       /\ snapshot[i].pid > 0
       /\ snapshot[i].name # <<>>
       /\ snapshot[i].status # ""
  /\ Refreshed =>
       LET reads == Reads
       IN /\ \A j \in SucceededIn(reads) : reads[j].pid <= 0 => reads[j].pid \notin PidsShown
          /\ \A i \in 1..Len(snapshot) :
               \E j \in CollectableIn(reads) :
                 /\ snapshot[i].pid = reads[j].pid
                 /\ snapshot[i].name =
                      IF reads[j].name \in {None, Some(<<>>)} THEN Unknown ELSE reads[j].name[1]
                 /\ snapshot[i].status =
                      IF reads[j].status = None THEN "unknown" ELSE reads[j].status[1]
                 /\ snapshot[i].cpu =
                      IF reads[j].cpu_percent = None THEN 0 ELSE reads[j].cpu_percent[1]
                 /\ snapshot[i].memory =
                      IF reads[j].memory_percent = None THEN 0 ELSE reads[j].memory_percent[1]

\* C14 witness: the enumeration yielded a process with nothing but its pid and
\* a process with pid 0; the first is shown with the four defaults, the second
\* is not shown
C14_Witness ==
  LET reads == Reads
  IN /\ Refreshed
     /\ \E j \in SucceededIn(reads) : reads[j].pid = 0
     /\ \E j \in SucceededIn(reads) :
          /\ reads[j].name = None /\ reads[j].status = None
          /\ reads[j].cpu_percent = None /\ reads[j].memory_percent = None
          /\ \E i \in 1..Len(snapshot) :
               snapshot[i] = [pid |-> reads[j].pid, name |-> Unknown, cpu |-> 0,
                              memory |-> 0, status |-> "unknown"]
     /\ 0 \notin PidsShown

\* the place in reads of the process with pid p
PlaceIn(reads, p) == CHOOSE j \in CollectableIn(reads) : reads[j].pid = p

\* C15: the sort by descending CPU is stable: two records of the table with
\* equal CPU readings stand in the order in which the enumeration yielded
\* their processes.
C15_StableSort ==
  Refreshed =>
    LET reads == Reads
    IN \A i \in 1..Len(snapshot) : \A k \in (i + 1)..Len(snapshot) :
         snapshot[i].cpu = snapshot[k].cpu =>
           PlaceIn(reads, snapshot[i].pid) < PlaceIn(reads, snapshot[k].pid)

\* C15 witness: two processes with equal CPU readings, the one with the higher
\* pid enumerated first, are shown in that order with other processes of the
\* same reading between them
C15_Witness ==
  /\ Refreshed
  /\ \E i \in 1..Len(snapshot) : \E k \in (i + 2)..Len(snapshot) :
       /\ snapshot[i].cpu = snapshot[k].cpu
       /\ snapshot[i].pid > snapshot[k].pid
       /\ PlaceIn(Reads, snapshot[i].pid) < PlaceIn(Reads, snapshot[k].pid)

\* the pid a kill request made in this state signals: lines 272-274 take it
\* from the row under the cursor
KillTarget == IntOf(rows[cursor_row + 1].cells[1])

\* C16: a kill request signals the process the operator highlighted, whatever
\* timer refreshes ran in between: after the operator highlighted a row, a
\* tick of the refresh timer leaves the highlighted process the one a kill
\* request signals.
C16_KillsHighlighted ==
  [][(/\ last.op = "highlight"
      /\ last'.op = "table_tick"
      /\ cursor_row' < Len(snapshot'))
       => KillTarget' = KillTarget]_vars

\* C17: a kill whose signal was not delivered ends in NotFound, PermissionDenied
\* or Failed without a refresh: the table, its cursor and the query are what
\* they were before the request and the app keeps running; only the message
\* changes.
C17_FailedKillChangesMessageOnly ==
  [][(last'.op = "kill" /\ last'.signal # "")
       => /\ last'.outcome \in {"NotFound", "PermissionDenied", "Failed"}
          /\ last'.refreshed = <<>>
          /\ snapshot' = snapshot
          /\ cursor_row' = cursor_row
          /\ source' = source
          /\ search_value' = search_value
          /\ timers' = timers
          /\ fault' = fault
          /\ message'.color = "red"]_vars

\* C17 witness: a kill of the process in the second row of a filtered table was
\* refused; the table still has its rows and the cursor is still on the second
C17_Witness ==
  /\ last.op = "kill"
  /\ last.signal = "PermissionError"
  /\ last.outcome = "PermissionDenied"
  /\ last.refreshed = <<>>
  /\ search_value # <<>>
  /\ source.query = search_value
  /\ cursor_row = 1
  /\ Len(snapshot) > 1
  /\ last.pid = snapshot[2].pid
  /\ message = Shown("Permission denied for PID {}", StrNat(last.pid), TRUE)

\* C18: a refresh given the enumeration and the query of the refresh before it
\* leaves the table as that refresh left it: the same records and rows in the
\* same order, and no pid twice.
C18_RefreshIdempotent ==
  [][(last'.refreshed # <<>> /\ source'.again)
       => /\ snapshot' = snapshot
          /\ rows' = rows
          /\ \A i \in 1..Len(snapshot') : \A k \in (i + 1)..Len(snapshot') :
               snapshot'[i].pid # snapshot'[k].pid]_vars

\* C18 witness: a timer tick refreshed a table of 30 rows from the enumeration of
\* the refresh before it, and the table has 30 rows with 30 different pids
C18_Witness ==
  /\ last.op = "table_tick"
  /\ source.again
  /\ Len(snapshot) = MaxRows
  /\ Cardinality(PidsShown) = MaxRows

====
